---- MODULE Spec2Model ----
(***************************************************************************)
(* buffer-static-upload (main.go): versioning of static assets, the        *)
(* idempotent upload loop of VersionAndUploadFiles, and main's handling of *)
(* its result.                                                             *)
(*                                                                         *)
(* Strings are sequences of one-character strings, so that filepath.Ext,   *)
(* strings.Replace and path.Join are computed as the Go library computes   *)
(* them.  File contents are sequences of bytes.                            *)
(***************************************************************************)
EXTENDS Integers, Sequences, FiniteSets, TLC

(***************************************************************************)
(* Bounds                                                                  *)
(***************************************************************************)
\* longest list of input files handed to one run
MaxFiles == 2
\* number of consecutive invocations of the tool
MaxRuns == 2
\* longest filename (in tokens) given to GetVersionedFilename
MaxTokens == 5

(***************************************************************************)
(* String helpers (Go strings / path / path/filepath)                      *)
(***************************************************************************)
Dot == "."
Slash == "/"

\* s[from..] as a sequence (empty when from > Len(s))
Drop(s, n) == SubSeq(s, n + 1, Len(s))

Take(s, n) == SubSeq(s, 1, n)

HasPrefixAt(s, p, i) == /\ i + Len(p) - 1 <= Len(s)
                        /\ SubSeq(s, i, i + Len(p) - 1) = p

\* strings.Index + 1: position of the first occurrence of old in s, 0 if none
IndexOf(s, old) ==
    LET hits == { i \in 1..(Len(s) + 1) : HasPrefixAt(s, old, i) }
    IN  IF hits = {} THEN 0
        ELSE CHOOSE i \in hits : \A j \in hits : i <= j

\* strings.Replace(s, old, new, 1): the FIRST occurrence of old is replaced;
\* an empty old matches at the beginning of s
ReplaceFirst(s, old, new) ==
    LET i == IndexOf(s, old)
    IN  IF i = 0 THEN s
        ELSE Take(s, i - 1) \o new \o Drop(s, i - 1 + Len(old))

\* filepath.Ext: the suffix beginning at the final dot in the final
\* slash-separated element of path; empty if there is no dot
Ext(p) ==
    LET dots == { i \in 1..Len(p) :
                     /\ p[i] = Dot
                     /\ \A j \in i..Len(p) : p[j] # Slash }
    IN  IF dots = {} THEN <<>>
        ELSE LET d == CHOOSE i \in dots : \A j \in dots : j <= i
             IN  Drop(p, d - 1)

\* the path split at slashes, as a sequence of elements
RECURSIVE SplitSlash(_)
SplitSlash(p) ==
    LET i == IndexOf(p, <<Slash>>)
    IN  IF i = 0 THEN <<p>>
        ELSE <<Take(p, i - 1)>> \o SplitSlash(Drop(p, i))

\* path.Clean's processing of the elements: empty and "." elements are
\* dropped, ".." removes the element before it (or is dropped at the root,
\* or kept in front of a relative path)
RECURSIVE CleanElems(_, _, _)
CleanElems(elems, out, rooted) ==
    IF elems = <<>> THEN out
    ELSE LET e == Head(elems)
             rest == Tail(elems)
         IN  IF e = <<>> \/ e = <<Dot>> THEN CleanElems(rest, out, rooted)
             ELSE IF e = <<Dot, Dot>>
             THEN IF out # <<>> /\ out[Len(out)] # <<Dot, Dot>>
                  THEN CleanElems(rest, Take(out, Len(out) - 1), rooted)
                  ELSE IF rooted THEN CleanElems(rest, out, rooted)
                  ELSE CleanElems(rest, Append(out, e), rooted)
             ELSE CleanElems(rest, Append(out, e), rooted)

RECURSIVE JoinWith(_, _)
JoinWith(elems, sep) ==
    IF elems = <<>> THEN <<>>
    ELSE IF Len(elems) = 1 THEN elems[1]
    ELSE elems[1] \o sep \o JoinWith(Tail(elems), sep)

\* path.Clean
Clean(p) ==
    IF p = <<>> THEN <<Dot>>
    ELSE LET rooted == p[1] = Slash
             body == JoinWith(CleanElems(SplitSlash(p), <<>>, rooted), <<Slash>>)
             res == IF rooted THEN <<Slash>> \o body ELSE body
         IN  IF res = <<>> THEN <<Dot>> ELSE res

\* path.Join: empty elements are ignored, the rest joined with slashes and
\* the result cleaned; all empty gives the empty string
PathJoin(elems) ==
    LET ne == SelectSeq(elems, LAMBDA e : e # <<>>)
    IN  IF ne = <<>> THEN <<>> ELSE Clean(JoinWith(ne, <<Slash>>))

(***************************************************************************)
(* String constants                                                        *)
(***************************************************************************)
\* var defaultS3Bucket = "static.buffer.com"
defaultS3Bucket ==
    <<"s","t","a","t","i","c",".","b","u","f","f","e","r",".","c","o","m">>

otherBucket == <<"m","y","b">>

HttpsPrefix == <<"h","t","t","p","s",":","/","/">>

S3Host == <<"s","3",".","a","m","a","z","o","n","a","w","s",".","c","o","m">>

ExtJs == <<".","j","s">>

ExtCss == <<".","c","s","s">>

AppJs == <<"a","p","p",".","j","s">>

LogoPng == <<"l","o","g","o",".","p","n","g">>

DirV1 == <<"v","1">>

\* the input files the glob patterns can expand to
Names == {AppJs, LogoPng}

\* the content of every file at the first invocation
FirstContent == <<1, 2>>

\* the byte contents a file can have (later invocations find any of these)
Contents == {FirstContent, <<3>>}

\* the content of an object that was in the bucket before the first run
OldBody == <<7>>

\* the (bucket, directory) pairs of the runs: the default bucket, which main
\* accepts only with a directory, and another bucket without directory
Configs == {<<defaultS3Bucket, DirV1>>, <<otherBucket, <<>> >>}

(***************************************************************************)
(* Pure functions of main.go                                               *)
(***************************************************************************)
HexDigits ==
    <<"0","1","2","3","4","5","6","7","8","9","a","b","c","d","e","f">>

\* the digest of a byte sequence, reduced to 8 bits
RECURSIVE Digest(_, _)
Digest(bytes, h) ==
    IF bytes = <<>> THEN h
    ELSE Digest(Tail(bytes), (h * 31 + Head(bytes)) % 256)

\* GetFileMd5, successful case: hex.EncodeToString of the digest of the bytes
\* that io.Copy reads, i.e. those from the handle's offset to end-of-file
GetFileMd5(bytes) ==
    LET h == Digest(bytes, 7)
    IN  <<HexDigits[(h \div 16) + 1], HexDigits[(h % 16) + 1]>>

\* GetVersionedFilename
GetVersionedFilename(filename, version) ==
    LET ext == Ext(filename)
        versionedExt == <<Dot>> \o version \o ext
    IN  ReplaceFirst(filename, ext, versionedExt)

\* every file is fingerprinted, whatever its extension
IsVersionableAll(filename) == TRUE

\* the test  ext == ".js" || ext == ".css"
IsVersionable(filename) == Ext(filename) = ExtJs \/ Ext(filename) = ExtCss

\* the directory is left out of the key
BucketFilenameNoDir(dir, uploadName) == uploadName

\* bucketFilename := path.Join(directory, uploadFilename)
BucketFilename(dir, uploadName) == PathJoin(<<dir, uploadName>>)

\* GetFileURL
GetFileURL(b, bucketFilename) ==
    IF b = defaultS3Bucket
    THEN HttpsPrefix \o PathJoin(<<b, bucketFilename>>)
    ELSE HttpsPrefix \o S3Host
            \o PathJoin(<<(<<Slash>>), b, (<<Slash>>), bucketFilename>>)

\* the outcomes of the HEAD request sent by HasPreviousUpload
HeadOutcomes == {"ok", "notfound", "network", "auth"}

\* only a 404 counts as absence, any other error as presence
HasPreviousUploadNot404(outcome) == outcome # "notfound"

\* HasPreviousUpload: true exactly when req.Send() returned no error
HasPreviousUpload(outcome) == outcome = "ok"

\* the result of the existence check is ignored
ShouldUploadAlways(has) == TRUE

\* shouldUpload := !HasPreviousUpload(...)
ShouldUpload(has) == ~has

\* the dry-run flag is not consulted
DoUploadIgnoringDryRun(should, dry) == should

\* the guard  shouldUpload && !dryRun  of the call of UploadFile
DoUpload(should, dry) == should /\ ~dry

\* the two labels are swapped
OutcomeSwapped(should) == IF should THEN "Skipped" ELSE "Uploaded"

\* the progress line printed for a file
Outcome(should) == IF should THEN "Uploaded" ELSE "Skipped"

\* fileVersions[filename] = fileURL
MapPut(m, k, v) == [x \in DOMAIN m \cup {k} |-> IF x = k THEN v ELSE m[x]]

\* fatal() prints the message but does not exit with a failure status
ExitStatusZero(failed) == 0

\* main: fatal() exits with status 1, a normal end of main is status 0
ExitStatus(failed) == IF failed THEN 1 ELSE 0

\* main: the guard  !*dryRun  of ioutil.WriteFile
DoWriteManifest(dry) == ~dry

EmptyMap == [x \in {} |-> <<>>]

(***************************************************************************)
(* State                                                                   *)
(***************************************************************************)
VARIABLES
    filenames,      \* main: files, the expanded glob list (same for every run)
    bucket,         \* main: *s3Bucket
    directory,      \* main: *directory
    fs,             \* the local files: filename -> byte content
    remote,         \* the bucket: object key -> stored body
    runs,           \* number of invocations of the tool started so far
    dryRun,         \* main: *dryRun of the current invocation
    pc,             \* position of the current invocation
    idx,            \* position of the range loop in filenames
    handles,        \* open *os.File handles: loop position -> read offset
    uploadFilename, \* VersionAndUploadFiles: uploadFilename
    bucketFilename, \* VersionAndUploadFiles: bucketFilename
    fileURL,        \* VersionAndUploadFiles: fileURL
    shouldUpload,   \* VersionAndUploadFiles: shouldUpload
    fileVersions,   \* VersionAndUploadFiles: fileVersions
    err,            \* the error VersionAndUploadFiles returned (FALSE: nil)
    exitCode,       \* exit status of the invocation (-1 while it runs)
    written,        \* what this invocation wrote to the manifest file:
                    \* <<>> (nothing) or <<the mapping>>
    readsFromOffset,\* the SDK release built in sends the body from the
                    \* handle's read offset on (else from position 0)
    heads,          \* HEAD requests of this invocation
    uploads,        \* UploadFile calls of this invocation (sent: no error)
    printed,        \* progress lines of this invocation
    failedAt,       \* loop position whose step failed (0: none)
    prevOK,         \* the last finished invocation was no dry run, returned nil
    prevManifest,   \* if so, the mapping it returned
    prevFs,         \* if so, the local files as it found them
    fnName,         \* argument filename of GetVersionedFilename
    fnVersion,      \* argument version of GetVersionedFilename
    fnTokens,       \* number of tokens fnName is made of
    fnResult,       \* its result
    fnDone          \* it has been applied to (fnName, fnVersion)

progVars == <<filenames, bucket, directory, fs, remote, runs, dryRun, pc, idx,
              handles, uploadFilename, bucketFilename, fileURL, shouldUpload, fileVersions, err,
              exitCode, written, readsFromOffset, heads, uploads, printed, failedAt,
              prevOK, prevManifest, prevFs>>

fnVars == <<fnName, fnVersion, fnTokens, fnResult, fnDone>>

vars == <<progVars, fnVars>>

\* the states of the local files
FileSystems == [Names -> Contents]

\* the sequences over S of length lo..hi
SeqsUpTo(S, lo, hi) == UNION { [1..n -> S] : n \in lo..hi }

\* the key under which the loop stores filename when its content is content
KeyOf(filename, content) ==
    BucketFilename(directory,
        IF IsVersionable(filename)
        THEN GetVersionedFilename(filename, GetFileMd5(content))
        ELSE filename)

FnIdle == /\ fnName = <<>>
          /\ fnVersion = <<>>
          /\ fnTokens = 0
          /\ fnResult = <<>>
          /\ fnDone = FALSE

Init ==
    /\ filenames \in SeqsUpTo(Names, 0, MaxFiles)
    /\ \E c \in Configs : bucket = c[1] /\ directory = c[2]
    /\ fs = [n \in Names |-> FirstContent]
    /\ \E present \in SUBSET Names :
          remote = [k \in { KeyOf(n, fs[n]) : n \in present } |-> OldBody]
    /\ runs = 0
    /\ dryRun = FALSE
    /\ pc = "idle"
    /\ idx = 1
    /\ handles = EmptyMap
    /\ uploadFilename = <<>>
    /\ bucketFilename = <<>>
    /\ fileURL = <<>>
    /\ shouldUpload = FALSE
    /\ fileVersions = EmptyMap
    /\ err = FALSE
    /\ exitCode = -1
    /\ written = <<>>
    /\ readsFromOffset \in BOOLEAN
    /\ heads = <<>>
    /\ uploads = <<>>
    /\ printed = <<>>
    /\ failedAt = 0
    /\ prevOK = FALSE
    /\ prevManifest = EmptyMap
    /\ prevFs = EmptyMap
    /\ FnIdle

(***************************************************************************)
(* One invocation of the tool: main and VersionAndUploadFiles              *)
(***************************************************************************)
\* the file of the current loop iteration and its current content
filename == filenames[idx]

content == fs[filename]

\* what the bucket holds under key: <<>> (no object) or <<the body>>
Stored(key) == IF key \in DOMAIN remote THEN <<remote[key]>> ELSE <<>>

\* return fileVersions, err: the deferred file.Close() calls run now
ReturnError ==
    /\ err' = TRUE
    /\ failedAt' = idx
    /\ handles' = EmptyMap
    /\ pc' = "returned"

\* the body uploader.Upload sends for a handle at read offset off: the bytes
\* from the offset on (the length of the body is taken as the bytes
\* remaining after the offset), or the whole file (the body is read with
\* ReadAt from position 0); which one depends on the SDK release built in
UploadBody(bytes, off) == IF readsFromOffset THEN Drop(bytes, off) ELSE bytes

\* main up to the call of VersionAndUploadFiles, and the function's prologue;
\* files is the state of the local files this invocation finds (the build may
\* have rewritten them since the last one)
StartRun(dry, files) ==
    /\ pc \in {"idle", "exit"}
    /\ runs < MaxRuns
    /\ fs' = files
    /\ runs' = runs + 1
    /\ dryRun' = dry
    /\ pc' = "open"
    /\ idx' = 1
    /\ handles' = EmptyMap
    /\ uploadFilename' = <<>>
    /\ bucketFilename' = <<>>
    /\ fileURL' = <<>>
    /\ shouldUpload' = FALSE
    /\ fileVersions' = EmptyMap
    /\ err' = FALSE
    /\ exitCode' = -1
    /\ written' = <<>>
    /\ heads' = <<>>
    /\ uploads' = <<>>
    /\ printed' = <<>>
    /\ failedAt' = 0
    /\ UNCHANGED <<filenames, bucket, directory, remote, readsFromOffset,
                   prevOK, prevManifest, prevFs, fnVars>>

\* file, err := os.Open(filename); defer file.Close()
Open ==
    /\ pc = "open"
    /\ idx <= Len(filenames)
    /\ \/ /\ handles' = MapPut(handles, idx, 0)
          /\ pc' = "version"
          /\ UNCHANGED <<err, failedAt>>
       \/ ReturnError
    /\ UNCHANGED <<filenames, bucket, directory, fs, remote, runs, dryRun, idx,
                   uploadFilename, bucketFilename, fileURL, shouldUpload, fileVersions, exitCode,
                   written, readsFromOffset, heads, uploads, printed, prevOK,
                   prevManifest, prevFs, fnVars>>

\* the range loop is exhausted: return fileVersions, nil
LoopEnd ==
    /\ pc = "open"
    /\ idx > Len(filenames)
    /\ handles' = EmptyMap
    /\ pc' = "returned"
    /\ UNCHANGED <<filenames, bucket, directory, fs, remote, runs, dryRun, idx,
                   uploadFilename, bucketFilename, fileURL, shouldUpload, fileVersions, err, exitCode,
                   written, readsFromOffset, heads, uploads, printed, failedAt,
                   prevOK, prevManifest, prevFs, fnVars>>

\* lines 174-175, for the upload name chosen in lines 165-173
SetKeyAndURL(uploadName) ==
    /\ uploadFilename' = uploadName
    /\ bucketFilename' = BucketFilename(directory, uploadName)
    /\ fileURL' = GetFileURL(bucket, BucketFilename(directory, uploadName))

\* lines 165-175: the upload name, fingerprinted for .js and .css, the key
\* and the URL
Version ==
    /\ pc = "version"
    /\ \/ /\ IsVersionable(filename)
          /\ SetKeyAndURL(GetVersionedFilename(filename,
                             GetFileMd5(Drop(content, handles[idx]))))
          /\ handles' = [handles EXCEPT ![idx] = Len(content)]
          /\ pc' = "head"
          /\ UNCHANGED <<err, failedAt>>
       \/ /\ IsVersionable(filename)
          /\ ReturnError
          /\ UNCHANGED <<uploadFilename, bucketFilename, fileURL>>
       \/ /\ ~IsVersionable(filename)
          /\ SetKeyAndURL(filename)
          /\ pc' = "head"
          /\ UNCHANGED <<handles, err, failedAt>>
    /\ UNCHANGED <<filenames, bucket, directory, fs, remote, runs, dryRun, idx,
                   shouldUpload, fileVersions, exitCode, written,
                   readsFromOffset, heads, uploads, printed, prevOK,
                   prevManifest, prevFs, fnVars>>

\* shouldUpload := !HasPreviousUpload(svc, bucket, bucketFilename)
Check ==
    /\ pc = "head"
    /\ \E o \in HeadOutcomes :
          /\ o = "ok" => bucketFilename \in DOMAIN remote
          /\ o = "notfound" => bucketFilename \notin DOMAIN remote
          /\ shouldUpload' = ShouldUpload(HasPreviousUpload(o))
          /\ heads' = Append(heads,
                [pos |-> idx, key |-> bucketFilename, ok |-> (o = "ok"),
                 before |-> Stored(bucketFilename),
                 has |-> HasPreviousUpload(o)])
    /\ pc' = IF DoUpload(shouldUpload', dryRun) THEN "upload" ELSE "print"
    /\ UNCHANGED <<filenames, bucket, directory, fs, remote, runs, dryRun, idx,
                   handles, uploadFilename, bucketFilename, fileURL, fileVersions, err, exitCode,
                   written, readsFromOffset, uploads, printed, failedAt, prevOK,
                   prevManifest, prevFs, fnVars>>

\* err := UploadFile(file, bucketFilename, bucket)
Upload ==
    /\ pc = "upload"
    /\ \/ /\ LET body == UploadBody(content, handles[idx])
             IN  /\ remote' = MapPut(remote, bucketFilename, body)
                 /\ uploads' = Append(uploads,
                       [pos |-> idx, key |-> bucketFilename, sent |-> TRUE,
                        body |-> body, full |-> content])
          /\ pc' = "print"
          /\ UNCHANGED <<handles, err, failedAt>>
       \/ /\ ReturnError
          /\ uploads' = Append(uploads,
                [pos |-> idx, key |-> bucketFilename, sent |-> FALSE,
                 body |-> <<>>, full |-> content])
          /\ UNCHANGED remote
    /\ UNCHANGED <<filenames, bucket, directory, fs, runs, dryRun, idx,
                   uploadFilename, bucketFilename, fileURL, shouldUpload, fileVersions, exitCode,
                   written, readsFromOffset, heads, printed, prevOK, prevManifest,
                   prevFs, fnVars>>

\* lines 185-191: the progress line and fileVersions[filename] = fileURL
Record ==
    /\ pc = "print"
    /\ printed' = Append(printed,
          [pos |-> idx, name |-> filename, outcome |-> Outcome(shouldUpload),
           key |-> bucketFilename,
           stored |-> Stored(bucketFilename)])
    /\ fileVersions' = MapPut(fileVersions, filename, fileURL)
    /\ idx' = idx + 1
    /\ pc' = "open"
    /\ UNCHANGED <<filenames, bucket, directory, fs, remote, runs, dryRun,
                   handles, uploadFilename, bucketFilename, fileURL, shouldUpload, err, exitCode,
                   written, readsFromOffset, heads, uploads, failedAt, prevOK,
                   prevManifest, prevFs, fnVars>>

\* main, lines 243-269: fatal on an error, else the manifest is written
\* unless this is a dry run
MainEnd ==
    /\ pc = "returned"
    /\ \/ /\ err
          /\ exitCode' = ExitStatus(TRUE)
          /\ UNCHANGED written
       \/ /\ ~err
          /\ DoWriteManifest(dryRun)
          /\ written' = <<fileVersions>>
          /\ exitCode' = ExitStatus(FALSE)
       \/ /\ ~err
          /\ DoWriteManifest(dryRun)
          /\ exitCode' = ExitStatus(TRUE)
          /\ UNCHANGED written
       \/ /\ ~err
          /\ ~DoWriteManifest(dryRun)
          /\ exitCode' = ExitStatus(FALSE)
          /\ UNCHANGED written
    /\ pc' = "exit"
    /\ prevOK' = (~err /\ ~dryRun)
    /\ prevManifest' = IF ~err /\ ~dryRun THEN fileVersions ELSE EmptyMap
    /\ prevFs' = IF ~err /\ ~dryRun THEN fs ELSE EmptyMap
    /\ UNCHANGED <<filenames, bucket, directory, fs, remote, runs, dryRun, idx,
                   handles, uploadFilename, bucketFilename, fileURL, shouldUpload, fileVersions, err,
                   readsFromOffset, heads, uploads, printed, failedAt, fnVars>>

Next ==
    \/ \E dry \in BOOLEAN, files \in FileSystems :
          /\ runs = 0 => files = fs
          /\ StartRun(dry, files)
    \/ Open
    \/ LoopEnd
    \/ Version
    \/ Check
    \/ Upload
    \/ Record
    \/ MainEnd

Spec == Init /\ [][Next]_vars

(***************************************************************************)
(* GetVersionedFilename on its own: filenames are built from tokens and    *)
(* the function is applied to them                                         *)
(***************************************************************************)
\* the pieces filenames are made of
Tokens == {<<"a">>, ExtJs, <<".","m","i","n">>, <<Slash>>}

\* fingerprints
Versions == {<<"0","f">>, <<"c","4">>}

InitFn ==
    /\ Init
    /\ filenames = <<>>
    /\ bucket = defaultS3Bucket
    /\ remote = EmptyMap
    /\ readsFromOffset = FALSE

\* the caller extends the filename by one token
FnAppend(t) ==
    /\ ~fnDone
    /\ fnTokens < MaxTokens
    /\ fnName' = fnName \o t
    /\ fnTokens' = fnTokens + 1
    /\ UNCHANGED <<fnVersion, fnResult, fnDone, progVars>>

\* GetVersionedFilename(fnName, v)
FnApply(v) ==
    /\ ~fnDone
    /\ fnName # <<>>
    /\ fnVersion' = v
    /\ fnResult' = GetVersionedFilename(fnName, v)
    /\ fnDone' = TRUE
    /\ UNCHANGED <<fnName, fnTokens, progVars>>

NextFn ==
    \/ \E t \in Tokens : FnAppend(t)
    \/ \E v \in Versions : FnApply(v)

SpecFn == InitFn /\ [][NextFn]_vars

(***************************************************************************)
(* Properties                                                              *)
(***************************************************************************)
Range(seq) == { seq[k] : k \in 1..Len(seq) }

\* the invocation is inside or just back from VersionAndUploadFiles
InRun == pc \notin {"idle", "exit"}

\* VersionAndUploadFiles has returned nil
ReturnedNil == pc \in {"returned", "exit"} /\ ~err

\* every existence check of this invocation answered truthfully
Truthful == \A k \in 1..Len(heads) : heads[k].has = (heads[k].before # <<>>)

\* UploadFile was called for the file at loop position k
Invoked(k) == \E j \in 1..Len(uploads) : uploads[j].pos = k

\* a transfer was performed for the file at loop position k
Transferred(k) == \E j \in 1..Len(uploads) : uploads[j].pos = k /\ uploads[j].sent

HasExt(name) == Ext(name) = ExtJs \/ Ext(name) = ExtCss

\* C1: when a run that was no dry run returned without error and the tool runs
\* again on the same file contents and the bucket as that run left it, with
\* every existence check answering truthfully, the second run calls UploadFile
\* zero times, prints Skipped for every file, and returns the same manifest.
C1_Idempotent ==
    (InRun /\ prevOK /\ prevFs = fs /\ Truthful) =>
        /\ uploads = <<>>
        /\ \A k \in 1..Len(printed) : printed[k].outcome = "Skipped"
        /\ (pc = "returned" /\ ~err) =>
              /\ fileVersions = prevManifest
              /\ Len(printed) = Len(filenames)

C1_Witness ==
    /\ pc = "returned" /\ ~err /\ ~dryRun
    /\ prevOK /\ prevFs = fs /\ Truthful
    /\ Len(filenames) >= 2
    /\ \E k \in 1..Len(heads) : heads[k].before # <<OldBody>>

\* C2: a dry run never calls UploadFile and never writes the manifest file,
\* while each file it processes gets exactly one existence check and one
\* manifest entry: all of them when the run returns without error.
C2_DryRun ==
    dryRun =>
        /\ uploads = <<>>
        /\ written = <<>>
        /\ \A k \in 1..Len(heads) : heads[k].pos = k
        /\ Len(heads) \in {Len(printed), Len(printed) + 1}
        /\ DOMAIN fileVersions = { filenames[k] : k \in 1..Len(printed) }
        /\ ReturnedNil =>
              /\ Len(heads) = Len(filenames)
              /\ DOMAIN fileVersions = Range(filenames)

C2_Witness ==
    /\ dryRun /\ pc = "exit" /\ ~err
    /\ Len(filenames) >= 2
    /\ \E k \in 1..Len(heads) : ~heads[k].has

\* C3: when opening, fingerprinting or uploading the i-th file fails, nothing
\* is checked, uploaded or printed for a later file, the failed step is not
\* tried again, VersionAndUploadFiles returns the error, no manifest file is
\* written and the process exits with a non-zero status.
C3_FailFast ==
    failedAt # 0 =>
        /\ err
        /\ pc \in {"returned", "exit"}
        /\ \A k \in 1..Len(heads) : heads[k].pos <= failedAt
        /\ \A k \in 1..Len(uploads) : uploads[k].pos <= failedAt
        /\ Cardinality({ k \in 1..Len(uploads) : uploads[k].pos = failedAt }) <= 1
        /\ Cardinality({ k \in 1..Len(heads) : heads[k].pos = failedAt }) <= 1
        /\ Len(printed) = failedAt - 1
        /\ written = <<>>
        /\ pc = "exit" => exitCode # 0

C3_Witness ==
    /\ pc = "exit"
    /\ failedAt = 1
    /\ Len(filenames) >= 2
    /\ \E k \in 1..Len(uploads) : ~uploads[k].sent

\* C4: after a run of VersionAndUploadFiles that returns without error, the
\* manifest has exactly one entry per input filename and no other key, and
\* each value is GetFileURL(bucket, directory joined with the key), the key
\* being GetVersionedFilename(filename, fingerprint of the content) for .js
\* and .css files and the filename itself for any other extension.
C4_ManifestComplete ==
    ReturnedNil =>
        /\ DOMAIN fileVersions = Range(filenames)
        /\ \A f \in DOMAIN fileVersions :
              fileVersions[f] =
                 GetFileURL(bucket,
                    PathJoin(<<directory,
                               IF HasExt(f)
                               THEN GetVersionedFilename(f, GetFileMd5(fs[f]))
                               ELSE f>>))

C4_Witness ==
    /\ ReturnedNil
    /\ Range(filenames) = Names
    /\ directory # <<>>
    /\ \E k \in 1..Len(printed) : printed[k].outcome = "Skipped"
    /\ \E k \in 1..Len(printed) : printed[k].outcome = "Uploaded"

\* C5 (as claimed): for a filename with an extension, the result of
\* GetVersionedFilename is the filename without its final extension, then
\* '.', the fingerprint, and the final extension.
C5_SplicedBeforeFinalExt ==
    (fnDone /\ Ext(fnName) # <<>>) =>
        fnResult = Take(fnName, Len(fnName) - Len(Ext(fnName)))
                      \o <<Dot>> \o fnVersion \o Ext(fnName)

\* C6 (as claimed): the body handed to the bucket by every transfer is the
\* file's full content.
C6_FullContent ==
    \A k \in 1..Len(uploads) :
        uploads[k].sent => uploads[k].body = uploads[k].full

\* C7 (as claimed): the outcome printed for a file is Skipped whenever the
\* object already exists or the run is a dry run, and Uploaded only when a
\* transfer was performed for that file in this run.
C7_Original ==
    \A k \in 1..Len(printed) :
        /\ (heads[k].before # <<>> \/ dryRun) => printed[k].outcome = "Skipped"
        /\ printed[k].outcome = "Uploaded" => Transferred(k)

\* C7 (amended): the outcome printed for a file is Skipped exactly when the
\* existence check reported the object present, in a dry run as in a real
\* one; Uploaded is printed only when a transfer was performed for that file
\* in this run, or when the run is a dry run and the check reported the
\* object absent (no transfer is made then).
C7_OutcomeFollowsCheck ==
    /\ Len(printed) <= Len(heads)
    /\ \A k \in 1..Len(printed) :
          /\ printed[k].pos = k /\ heads[k].pos = k
          /\ printed[k].outcome \in {"Skipped", "Uploaded"}
          /\ printed[k].outcome = "Skipped" <=> heads[k].has
          /\ printed[k].outcome = "Uploaded" =>
                \/ Transferred(k)
                \/ dryRun /\ ~heads[k].has /\ ~Invoked(k)

C7_Witness ==
    /\ dryRun
    /\ \E k \in 1..Len(printed) :
          printed[k].outcome = "Uploaded" /\ ~Invoked(k)
    /\ \E k \in 1..Len(printed) :
          printed[k].outcome = "Skipped" /\ heads[k].has

\* C8: HasPreviousUpload returns true only when the HEAD request succeeded
\* and false on every error; in a run that is no dry run a failed check does
\* not end the batch: UploadFile is called for that file's key.
C8_ErrorsAreAbsence ==
    \A k \in 1..Len(heads) :
        /\ heads[k].has = heads[k].ok
        /\ (~heads[k].ok /\ ~dryRun) =>
              \/ pc = "upload" /\ idx = heads[k].pos /\ failedAt = 0
              \/ \E j \in 1..Len(uploads) :
                    /\ uploads[j].pos = heads[k].pos
                    /\ uploads[j].key = heads[k].key

C8_Witness ==
    /\ ~dryRun
    /\ \E k \in 1..Len(heads) :
          /\ heads[k].before # <<>>
          /\ ~heads[k].ok
          /\ Transferred(heads[k].pos)

\* C9 (as claimed): the handle of a file is released when its processing
\* completes, so at most one input file handle is open at any point of the
\* loop, and none between two files.
C9_OneHandle ==
    /\ Cardinality(DOMAIN handles) <= 1
    /\ pc = "open" => handles = EmptyMap

\* C10 (as claimed): for a file whose extension is neither .js nor .css, once
\* an object exists at its key every run prints Skipped and makes no transfer.
C10_Original ==
    \A k \in 1..Len(printed) :
        (~HasExt(printed[k].name) /\ heads[k].before # <<>>) =>
            /\ printed[k].outcome = "Skipped"
            /\ ~Invoked(k)

\* C10 (amended): for a file whose extension is neither .js nor .css the key
\* is the directory joined with the filename, whatever the content; once an
\* object exists at that key, every run whose existence check for the key
\* succeeds prints Skipped and makes no transfer, also when the local content
\* has changed: the bucket keeps the old body and the manifest URL is the same.
C10_StaleUnversioned ==
    \A k \in 1..Len(printed) :
        ~HasExt(printed[k].name) =>
            /\ printed[k].key = PathJoin(<<directory, printed[k].name>>)
            /\ fileVersions[printed[k].name] =
                  GetFileURL(bucket, PathJoin(<<directory, printed[k].name>>))
            /\ (heads[k].before # <<>> /\ heads[k].ok) =>
                  /\ printed[k].outcome = "Skipped"
                  /\ ~Invoked(k)
                  /\ printed[k].stored = heads[k].before

C10_Witness ==
    \E k \in 1..Len(printed) :
        /\ ~HasExt(printed[k].name)
        /\ printed[k].outcome = "Skipped"
        /\ ~dryRun
        /\ prevOK
        /\ fs[printed[k].name] # prevFs[printed[k].name]
        /\ printed[k].stored = <<prevFs[printed[k].name]>>
        /\ printed[k].stored # <<fs[printed[k].name]>>

====
